---- MODULE Spec2Model ----
(***************************************************************************)
(* Model of Data_Analyst_Analytics_company.py: the one-shot cleaning of    *)
(* the games table (clean_data), the construction of the Dash layout, and  *)
(* the three callbacks that filter the cleaned table by genre, rating and  *)
(* release-year range.                                                     *)
(*                                                                         *)
(* A DataFrame is [columns, rows]: the set of column labels and the        *)
(* sequence of rows, each row a function from the column labels to cell    *)
(* values.  Cell values:                                                   *)
(*   Year_of_Release  [nan, whole, tenths]   (2000.5 = whole 2000,         *)
(*                                            tenths 5; years are > 0)     *)
(*   Critic_Score, User_Score  [kind, val]   kind "nan" | "float" |        *)
(*                              "tbd" | "numstr" | "badstr"; val in tenths *)
(*   Genre, Rating, Platform   a string, NA for a missing cell             *)
(***************************************************************************)
EXTENDS Integers, Sequences, FiniteSets, TLC

\* ------------------------------------------------------------------ bounds
MaxRows == 2
MaxRawRows == 1

\* ------------------------------------------------------- program constants
YearThreshold == 2000
LastYear == 2016

\* --------------------------------------------------------------- the data
NA == "NaN"

ExpectedColumns ==
  {"Year_of_Release", "Genre", "Rating", "Platform", "Critic_Score", "User_Score"}

Genres == {"Action", "RPG"}
Ratings == {"E", "M"}
\* in ascending (lexicographic) order, the order Python compares strings in
PlatformOrder == <<"PS2", "X360">>
Platforms == {PlatformOrder[i] : i \in 1..Len(PlatformOrder)}

YearCell(w, t) == [nan |-> FALSE, whole |-> w, tenths |-> t]
NaNYear == [nan |-> TRUE, whole |-> 0, tenths |-> 0]
Score(k, v) == [kind |-> k, val |-> v]
NaNScore == Score("nan", 0)

\* Release years of the well-formed tables and of the year slider: the first
\* and the last year the dashboard covers ("from 2000 to 2016")
DashYears == {YearThreshold, LastYear}

\* the cells of a well-formed row
DashCells(c) ==
  CASE c = "Year_of_Release" -> {YearCell(y, 0) : y \in DashYears}
    [] c = "Genre"           -> Genres
    [] c = "Rating"          -> Ratings
    [] c = "Platform"        -> Platforms
    [] c = "Critic_Score"    -> {Score("float", 800)}
    [] c = "User_Score"      -> {Score("float", 85)}

\* the cells of an untrusted raw row
RawCells(c) ==
  CASE c = "Year_of_Release" ->
         {NaNYear, YearCell(YearThreshold - 1, 0), YearCell(YearThreshold, 0),
          YearCell(YearThreshold, 5), YearCell(YearThreshold + 1, 0)}
    [] c = "Genre"           -> {NA, "Action"}
    [] c = "Rating"          -> {NA, "E"}
    [] c = "Platform"        -> {NA, "PS2"}
    [] c = "Critic_Score"    -> {NaNScore, Score("float", 800)}
    [] c = "User_Score"      ->
         {NaNScore, Score("tbd", 0), Score("float", 85), Score("numstr", 85),
          Score("badstr", 0)}

DataFrame(cols, rws) == [columns |-> cols, rows |-> rws]

\* raw tables read from games.csv: every expected column, or all but one
ColumnSets == {ExpectedColumns} \cup {ExpectedColumns \ {c} : c \in ExpectedColumns}

\* the cells of column c in an untrusted (raw) or a well-formed table
Cells(raw, c) == IF raw THEN RawCells(c) ELSE DashCells(c)

\* every row over all the expected columns
FullRows(raw) ==
  [Year_of_Release : Cells(raw, "Year_of_Release"), Genre : Cells(raw, "Genre"),
   Rating : Cells(raw, "Rating"), Platform : Cells(raw, "Platform"),
   Critic_Score : Cells(raw, "Critic_Score"), User_Score : Cells(raw, "User_Score")]

Restrict(r, cols) == [c \in cols |-> r[c]]

RowsOver(raw, cols) == {Restrict(r, cols) : r \in FullRows(raw)}

\* t is a table over cols of at most n rows
IsTable(t, raw, cols, n) ==
  \E k \in 0..n : \E rws \in [1..k -> RowsOver(raw, cols)] : t = DataFrame(cols, rws)

\* thresholds clean_data is applied with (the program passes YearThreshold)
Thresholds == {YearThreshold, YearThreshold + 1}

\* ------------------------------------------------------------ clean_data
IsNaN(c, v) ==
  CASE c = "Year_of_Release"                -> v.nan
    [] c \in {"Critic_Score", "User_Score"} -> v.kind = "nan"
    [] OTHER                                -> v = NA

\* a numeric comparison with NaN is False
YearGE(v, n) == ~v.nan /\ v.whole >= n
YearLE(v, w) == ~v.nan /\ ~w.nan /\
                (v.whole < w.whole \/ (v.whole = w.whole /\ v.tenths <= w.tenths))

SetCell(r, c, v) == [r EXCEPT ![c] = v]

\* dataframe.query(f'Year_of_Release >= {threshold}')
query(dataframe, threshold) ==
  DataFrame(dataframe.columns,
            SelectSeq(dataframe.rows, LAMBDA r : YearGE(r["Year_of_Release"], threshold)))

\* the conversion that also puts the user score on the critics' 0-100 scale
replace_astype_float_Scaled(v) ==
  CASE v.kind = "tbd"              -> NaNScore
    [] v.kind \in {"numstr", "float"} -> Score("float", v.val * 10)
    [] OTHER                       -> v

\* .replace('tbd', np.nan).astype(float) on one cell
replace_astype_float(v) ==
  CASE v.kind = "tbd"    -> NaNScore
    [] v.kind = "numstr" -> Score("float", v.val)
    [] OTHER             -> v

\* .astype(int) on one cell: the fraction is cut off
astype_int(v) == [v EXCEPT !.tenths = 0]

\* dropna(how='all'): only a row whose every cell is missing is dropped
dropna_Keeps_how_all(cols, r) == \E c \in cols : ~IsNaN(c, r[c])

\* dataframe.dropna(): a row with a missing cell in any column is dropped
dropna_Keeps(cols, r) == \A c \in cols : ~IsNaN(c, r[c])

dropna(dataframe) ==
  DataFrame(dataframe.columns,
            SelectSeq(dataframe.rows, LAMBDA r : dropna_Keeps(dataframe.columns, r)))

Returned(frame) == [ok |-> TRUE, error |-> "", frame |-> frame]
Raised(e) == [ok |-> FALSE, error |-> e, frame |-> DataFrame({}, <<>>)]

\* dataframe.loc[:, 'User_Score'] = dataframe['User_Score'].replace(...).astype(float)
set_User_Score(dataframe) ==
  DataFrame(dataframe.columns,
            [i \in 1..Len(dataframe.rows) |->
               SetCell(dataframe.rows[i], "User_Score",
                       replace_astype_float(dataframe.rows[i]["User_Score"]))])

\* dataframe.loc[:, 'Year_of_Release'] = dataframe['Year_of_Release'].astype(int)
set_Year_of_Release(dataframe) ==
  DataFrame(dataframe.columns,
            [i \in 1..Len(dataframe.rows) |->
               SetCell(dataframe.rows[i], "Year_of_Release",
                       astype_int(dataframe.rows[i]["Year_of_Release"]))])

\* astype(float) raises on a string that is no number
NotAFloat(dataframe) ==
  \E i \in 1..Len(dataframe.rows) : dataframe.rows[i]["User_Score"].kind = "badstr"

\* clean_data that steps over the User_Score conversion when the column is absent
clean_data_SkipsAbsent(dataframe, threshold) ==
  IF "Year_of_Release" \notin dataframe.columns THEN Raised("UndefinedVariableError")
  ELSE
  LET queried == query(dataframe, threshold) IN
  IF "User_Score" \notin queried.columns
  THEN Returned(dropna(set_Year_of_Release(queried)))
  ELSE IF NotAFloat(queried) THEN Raised("ValueError")
  ELSE Returned(dropna(set_Year_of_Release(set_User_Score(queried))))

clean_data(dataframe, threshold) ==
  IF "Year_of_Release" \notin dataframe.columns THEN Raised("UndefinedVariableError")
  ELSE
  LET queried == query(dataframe, threshold) IN
  IF "User_Score" \notin queried.columns THEN Raised("KeyError")
  ELSE IF NotAFloat(queried) THEN Raised("ValueError")
  ELSE Returned(dropna(set_Year_of_Release(set_User_Score(queried))))

\* ---------------------------------------------------------------- layout
RECURSIVE unique(_)
\* Series.unique(): the distinct values in order of first appearance
unique(s) ==
  IF s = <<>> THEN <<>>
  ELSE LET front == unique(SubSeq(s, 1, Len(s) - 1))
           last  == s[Len(s)]
       IN  IF \E i \in 1..Len(front) : front[i] = last THEN front ELSE Append(front, last)

Column(frame, c) == [i \in 1..Len(frame.rows) |-> frame.rows[i][c]]

\* Series.min() / Series.max() of the year column; NaN for an empty column
YearMin(col) ==
  IF col = <<>> THEN NaNYear
  ELSE col[CHOOSE i \in 1..Len(col) : \A j \in 1..Len(col) : YearLE(col[i], col[j])]
YearMax(col) ==
  IF col = <<>> THEN NaNYear
  ELSE col[CHOOSE i \in 1..Len(col) : \A j \in 1..Len(col) : YearLE(col[j], col[i])]

NoLayout ==
  [genre_options |-> <<>>, rating_options |-> <<>>, genres |-> {}, ratings |-> {},
   year_range |-> <<NaNYear, NaNYear>>]

\* the filter widgets of app.layout: options and initial values
app_layout(frame) ==
  [genre_options  |-> unique(Column(frame, "Genre")),
   rating_options |-> unique(Column(frame, "Rating")),
   genres         |-> {},
   ratings        |-> {},
   year_range     |-> <<YearMin(Column(frame, "Year_of_Release")),
                        YearMax(Column(frame, "Year_of_Release"))>>]

\* ------------------------------------------------------------- the state
VARIABLES pc, df, threshold, df_cleaned, error, layout, response

vars == <<pc, df, threshold, df_cleaned, error, layout, response>>

NoFrame == DataFrame({}, <<>>)
NoResponse ==
  [callback |-> "", genres |-> {}, ratings |-> {}, year_range |-> <<NaNYear, NaNYear>>,
   filtered_df |-> <<>>, game_count |-> 0, grouped_df |-> <<>>, scatter |-> <<>>]

\* after line 10, df = pd.read_csv('./games.csv')
InitStartup ==
  /\ \E cols \in ColumnSets : IsTable(df, TRUE, cols, MaxRawRows)
  /\ threshold \in Thresholds
  /\ pc = "read"
  /\ df_cleaned = NoFrame
  /\ error = ""
  /\ layout = NoLayout
  /\ response = NoResponse

Init ==
  /\ IsTable(df, FALSE, ExpectedColumns, MaxRows)
  /\ threshold = YearThreshold
  /\ pc = "read"
  /\ df_cleaned = NoFrame
  /\ error = ""
  /\ layout = NoLayout
  /\ response = NoResponse

\* line 56, df_cleaned = clean_data(df, 2000)
CleanData ==
  /\ pc = "read"
  /\ LET res == clean_data(df, threshold)
     IN  IF res.ok
         THEN /\ df_cleaned' = res.frame
              /\ pc' = "cleaned"
              /\ error' = error
         ELSE /\ df_cleaned' = df_cleaned
              /\ pc' = "aborted"
              /\ error' = res.error
  /\ UNCHANGED <<df, threshold, layout, response>>

\* lines 64-128, app.layout = ...; then app.run
BuildLayout ==
  /\ pc = "cleaned"
  /\ IF {"Genre", "Rating"} \subseteq df_cleaned.columns
     THEN /\ layout' = app_layout(df_cleaned)
          /\ pc' = "serving"
          /\ error' = error
     ELSE /\ layout' = layout
          /\ pc' = "aborted"
          /\ error' = "KeyError"
  /\ UNCHANGED <<df, threshold, df_cleaned, response>>

\* ------------------------------------------------------------- callbacks
\* isin that reads an empty selection as "no restriction"
isin_EmptyMatchesAll(v, values) == values = {} \/ v \in values

\* Series.isin(values)
isin(v, values) == v \in values

\* between(left, right, inclusive='left')
between_RightOpen(v, left, right) ==
  YearLE(left, v) /\ YearLE(v, right) /\ v.whole # right.whole

\* between that puts a reversed pair of bounds in order first
between_Swapped(v, left, right) ==
  \/ YearLE(left, v) /\ YearLE(v, right)
  \/ YearLE(right, v) /\ YearLE(v, left)

\* Series.between(left, right), inclusive on both sides
between(v, left, right) == YearLE(left, v) /\ YearLE(v, right)

\* the mask that leaves the genre test out while no genre is selected
RowMask_NoGenreNoTest(r, genres, ratings, year_range) ==
  /\ genres # {} => r["Genre"] \in genres
  /\ r["Rating"] \in ratings
  /\ YearLE(year_range[1], r["Year_of_Release"]) /\ YearLE(r["Year_of_Release"], year_range[2])

\* df_cleaned[Genre.isin(genres) & Rating.isin(ratings) & Year_of_Release.between(lo, hi)]
RowMask(r, genres, ratings, year_range) ==
  /\ isin(r["Genre"], genres)
  /\ isin(r["Rating"], ratings)
  /\ between(r["Year_of_Release"], year_range[1], year_range[2])

filtered_df(frame, genres, ratings, year_range) ==
  SelectSeq(frame.rows, LAMBDA r : RowMask(r, genres, ratings, year_range))

PlatformRank(p) == CHOOSE i \in 1..Len(PlatformOrder) : PlatformOrder[i] = p

\* the order groupby sorts its (Year_of_Release, Platform) keys in
KeyLess(a, b) ==
  \/ a[1].whole < b[1].whole
  \/ a[1].whole = b[1].whole /\ PlatformRank(a[2]) < PlatformRank(b[2])

\* nunique of the key columns in place of size()
GroupSize_nunique(rws, k) == 1

GroupSize(rws, k) ==
  Cardinality({i \in 1..Len(rws) :
                 rws[i]["Year_of_Release"] = k[1] /\ rws[i]["Platform"] = k[2]})

RECURSIVE SortedKeys(_)
SortedKeys(keys) ==
  IF keys = {} THEN <<>>
  ELSE LET least == CHOOSE k \in keys : \A o \in keys \ {k} : KeyLess(k, o)
       IN  <<least>> \o SortedKeys(keys \ {least})

\* groupby(..., sort=False): the groups in the order their keys first appear
grouped_df_sort_False(rws) ==
  LET order == unique([i \in 1..Len(rws) |-> <<rws[i]["Year_of_Release"], rws[i]["Platform"]>>])
  IN  [i \in 1..Len(order) |->
         [Year_of_Release |-> order[i][1], Platform |-> order[i][2],
          Number_of_Games |-> GroupSize(rws, order[i])]]

\* filtered_df.groupby(['Year_of_Release', 'Platform']).size()
\*            .reset_index(name='Number_of_Games')
grouped_df(rws) ==
  LET keys == {<<rws[i]["Year_of_Release"], rws[i]["Platform"]>> :
                 i \in {j \in 1..Len(rws) : rws[j]["Platform"] # NA}}
      order == SortedKeys(keys)
  IN  [i \in 1..Len(order) |->
         [Year_of_Release |-> order[i][1], Platform |-> order[i][2],
          Number_of_Games |-> GroupSize(rws, order[i])]]

\* the points px.scatter draws: x = User_Score, y = Critic_Score, color = Genre
scatter_points(rws) ==
  [i \in 1..Len(rws) |->
     [User_Score |-> rws[i]["User_Score"], Critic_Score |-> rws[i]["Critic_Score"],
      Genre |-> rws[i]["Genre"]]]

\* the values the three Inputs can deliver
SelectableYears == {YearCell(y, 0) : y \in DashYears}

Called(name, genres, ratings, year_range, rws, count, grouped, points) ==
  [callback |-> name, genres |-> genres, ratings |-> ratings, year_range |-> year_range,
   filtered_df |-> rws, game_count |-> count, grouped_df |-> grouped, scatter |-> points]

\* the Inputs of one invocation: the layout's initial values (page load) or
\* any selection the user makes
Inputs ==
  {[genres |-> layout.genres, ratings |-> layout.ratings, year_range |-> layout.year_range]}
    \cup [genres : SUBSET Genres, ratings : SUBSET Ratings,
          year_range : SelectableYears \X SelectableYears]

\* lines 137-141; filtered_df is a new frame, df_cleaned is only read
update_game_count_text(genres, ratings, year_range) ==
  LET rws == filtered_df(df_cleaned, genres, ratings, year_range)
  IN  /\ response' = Called("update_game_count_text", genres, ratings, year_range,
                            rws, Len(rws), <<>>, <<>>)
      /\ df_cleaned' = df_cleaned

\* lines 150-164
update_game_release_area_plot(genres, ratings, year_range) ==
  LET rws == filtered_df(df_cleaned, genres, ratings, year_range)
  IN  /\ response' = Called("update_game_release_area_plot", genres, ratings, year_range,
                            rws, 0, grouped_df(rws), <<>>)
      /\ df_cleaned' = df_cleaned

\* the scatter callback narrowing the module-level table itself
update_critic_user_scatter_plot_InPlace(genres, ratings, year_range) ==
  LET rws == filtered_df(df_cleaned, genres, ratings, year_range)
  IN  /\ response' = Called("update_critic_user_scatter_plot", genres, ratings, year_range,
                            rws, 0, <<>>, scatter_points(rws))
      /\ df_cleaned' = DataFrame(df_cleaned.columns, rws)

\* lines 173-186
update_critic_user_scatter_plot(genres, ratings, year_range) ==
  LET rws == filtered_df(df_cleaned, genres, ratings, year_range)
  IN  /\ response' = Called("update_critic_user_scatter_plot", genres, ratings, year_range,
                            rws, 0, <<>>, scatter_points(rws))
      /\ df_cleaned' = df_cleaned

UpdateGameCountText ==
  /\ pc = "serving"
  /\ pc' = "responding"
  /\ \E in \in Inputs : update_game_count_text(in.genres, in.ratings, in.year_range)
  /\ UNCHANGED <<df, threshold, error, layout>>

UpdateGameReleaseAreaPlot ==
  /\ pc = "serving"
  /\ pc' = "responding"
  /\ \E in \in Inputs : update_game_release_area_plot(in.genres, in.ratings, in.year_range)
  /\ UNCHANGED <<df, threshold, error, layout>>

UpdateCriticUserScatterPlot ==
  /\ pc = "serving"
  /\ pc' = "responding"
  /\ \E in \in Inputs : update_critic_user_scatter_plot(in.genres, in.ratings, in.year_range)
  /\ UNCHANGED <<df, threshold, error, layout>>

\* the callback has returned: Dash hands its value to the Output component and
\* the invocation's locals are gone
Respond ==
  /\ pc = "responding"
  /\ pc' = "serving"
  /\ response' = NoResponse
  /\ UNCHANGED <<df, threshold, df_cleaned, error, layout>>

NextStartup == CleanData \/ BuildLayout

SpecStartup == InitStartup /\ [][NextStartup]_vars

Next ==
  \/ CleanData
  \/ BuildLayout
  \/ UpdateGameCountText
  \/ UpdateGameReleaseAreaPlot
  \/ UpdateCriticUserScatterPlot
  \/ Respond

Spec == Init /\ [][Next]_vars

\* ================================================================ claims
Responding == pc = "responding"
Cleaned == pc \in {"cleaned", "serving", "responding"}

\* the rows of the cleaned table a selection asks for, stated on the cells
Wanted(genres, ratings, year_range) ==
  {i \in 1..Len(df_cleaned.rows) :
     LET r == df_cleaned.rows[i] IN
       /\ r["Genre"] \in genres
       /\ r["Rating"] \in ratings
       /\ ~year_range[1].nan /\ ~year_range[2].nan
       /\ year_range[1].whole <= r["Year_of_Release"].whole
       /\ r["Year_of_Release"].whole <= year_range[2].whole}

WantedNow == Wanted(response.genres, response.ratings, response.year_range)

\* the k-th smallest member of a set of row indices
Kth(idx, k) == CHOOSE i \in idx : Cardinality({j \in idx : j <= i}) = k

\* C1: the filtered subset of every callback holds exactly the rows whose
\* genre is selected, whose rating is selected and whose year lies in
\* [lo, hi] with both ends included, in the order of the cleaned table.
C1_FilterExact ==
  Responding =>
    /\ Len(response.filtered_df) = Cardinality(WantedNow)
    /\ \A k \in 1..Len(response.filtered_df) :
         response.filtered_df[k] = df_cleaned.rows[Kth(WantedNow, k)]

C1_Witness ==
  /\ Responding
  /\ Len(df_cleaned.rows) = 2
  /\ response.filtered_df = <<df_cleaned.rows[2]>>
  /\ response.year_range[1] = response.year_range[2]
  /\ df_cleaned.rows[1]["Genre"] \in response.genres
  /\ df_cleaned.rows[1]["Rating"] \in response.ratings

\* C2: every row clean_data returns has a release year >= threshold and no
\* missing cell; its user score is a number, neither 'tbd' nor NaN.
C2_CleanRows ==
  Cleaned =>
    \A i \in 1..Len(df_cleaned.rows) :
      LET r == df_cleaned.rows[i] IN
        /\ ~r["Year_of_Release"].nan
        /\ r["Year_of_Release"].whole >= threshold
        /\ \A c \in df_cleaned.columns \ {"Year_of_Release", "Critic_Score", "User_Score"} :
             r[c] # NA
        /\ "Critic_Score" \in df_cleaned.columns => r["Critic_Score"].kind = "float"
        /\ r["User_Score"].kind = "float"

C2_Witness ==
  /\ pc = "cleaned"
  /\ df.columns = ExpectedColumns
  /\ Len(df.rows) = 1
  /\ df.rows[1]["User_Score"].kind = "numstr"
  /\ df.rows[1]["Year_of_Release"].tenths = 5
  /\ Len(df_cleaned.rows) = 1

\* C3: with no genre selected or no rating selected the filtered subset is
\* empty, whatever the table and the year range; the dropdowns start empty,
\* so the first count is 0 and the first series and scatter are empty.
C3_EmptySelection ==
  /\ pc \in {"serving", "responding"} => layout.genres = {} /\ layout.ratings = {}
  /\ (Responding /\ (response.genres = {} \/ response.ratings = {})) =>
       /\ response.filtered_df = <<>>
       /\ response.game_count = 0
       /\ response.grouped_df = <<>>
       /\ response.scatter = <<>>

C3_Witness ==
  /\ Responding
  /\ response.genres = {}
  /\ response.ratings = Ratings
  /\ Len(df_cleaned.rows) = 2
  /\ \A i \in 1..2 : between(df_cleaned.rows[i]["Year_of_Release"],
                             response.year_range[1], response.year_range[2])
  /\ response.callback = "update_game_count_text"
  /\ response.game_count = 0

\* the genres and ratings that occur in the cleaned table
GenresPresent == {df_cleaned.rows[i]["Genre"] : i \in 1..Len(df_cleaned.rows)}
RatingsPresent == {df_cleaned.rows[i]["Rating"] : i \in 1..Len(df_cleaned.rows)}

Reversed(year_range) ==
  ~year_range[1].nan /\ ~year_range[2].nan /\ year_range[1].whole > year_range[2].whole

AllEmpty ==
  /\ response.filtered_df = <<>>
  /\ response.game_count = 0
  /\ response.grouped_df = <<>>
  /\ response.scatter = <<>>

\* C4 as stated: a selection with lo > hi, or one that names a genre or a
\* rating that does not occur in the cleaned table, yields an empty subset,
\* a count of 0, an empty series and an empty scatter.
C4_AsStated ==
  (Responding /\ (\/ Reversed(response.year_range)
                  \/ ~(response.genres \subseteq GenresPresent)
                  \/ ~(response.ratings \subseteq RatingsPresent))) => AllEmpty

\* C4 amended: a selection with lo > hi, or none of whose genres occurs in
\* the cleaned table, or none of whose ratings occurs in it, yields an empty
\* subset, a count of 0, an empty series and an empty scatter; every
\* selection, valid or not, gets a response.
C4_InvalidSelectionEmpty ==
  /\ (Responding /\ (\/ Reversed(response.year_range)
                     \/ response.genres \cap GenresPresent = {}
                     \/ response.ratings \cap RatingsPresent = {})) => AllEmpty
  /\ pc = "serving" =>
       /\ ENABLED UpdateGameCountText
       /\ ENABLED UpdateGameReleaseAreaPlot
       /\ ENABLED UpdateCriticUserScatterPlot

C4_Witness ==
  /\ Responding
  /\ Reversed(response.year_range)
  /\ response.genres = Genres
  /\ response.ratings = Ratings
  /\ Len(df_cleaned.rows) = 2
  /\ response.callback = "update_game_release_area_plot"
  /\ response.grouped_df = <<>>

Lacks(c) == c \notin df.columns

\* C5 as stated: a raw table that lacks any expected column makes clean_data
\* fail, so no cleaned table is ever built from it.
C5_AsStated ==
  (\E c \in ExpectedColumns : Lacks(c)) => pc \in {"read", "aborted"} /\ df_cleaned = NoFrame

\* C5 amended: clean_data fails when the raw table lacks Year_of_Release or
\* User_Score (a name or key lookup error); a table that lacks Genre or
\* Rating passes clean_data and startup aborts while the layout is built,
\* before any callback; lacking Platform or Critic_Score stops neither.
C5_MissingColumns ==
  /\ (Lacks("Year_of_Release") \/ Lacks("User_Score")) =>
       /\ pc \in {"read", "aborted"}
       /\ df_cleaned = NoFrame
       /\ pc = "aborted" =>
            error = (IF Lacks("Year_of_Release") THEN "UndefinedVariableError" ELSE "KeyError")
  /\ (Lacks("Genre") \/ Lacks("Rating")) =>
       /\ pc \in {"read", "cleaned", "aborted"}
       /\ (pc = "aborted" /\ error = "KeyError") =>
            clean_data(df, threshold).ok /\ df_cleaned = clean_data(df, threshold).frame
  /\ pc = "serving" => {"Year_of_Release", "User_Score", "Genre", "Rating"} \subseteq df.columns

C5_Witness ==
  /\ pc = "aborted"
  /\ Lacks("User_Score")
  /\ Len(df.rows) = 1
  /\ YearGE(df.rows[1]["Year_of_Release"], threshold)
  /\ error = "KeyError"

RECURSIVE SumGames(_)
SumGames(rws) ==
  IF rws = <<>> THEN 0
  ELSE rws[Len(rws)].Number_of_Games + SumGames(SubSeq(rws, 1, Len(rws) - 1))

\* C6: the count update_game_count_text reports is the number of rows of the
\* filtered subset, and the Number_of_Games of the groups that
\* update_game_release_area_plot builds for a selection add up to the number
\* of rows that selection keeps.
C6_CountsAgree ==
  /\ (Responding /\ response.callback = "update_game_count_text") =>
       /\ response.game_count = Len(response.filtered_df)
       /\ response.game_count = Cardinality(WantedNow)
  /\ (Responding /\ response.callback = "update_game_release_area_plot") =>
       /\ SumGames(response.grouped_df) = Len(response.filtered_df)
       /\ SumGames(response.grouped_df) = Cardinality(WantedNow)

C6_Witness ==
  /\ Responding
  /\ response.callback = "update_game_release_area_plot"
  /\ Len(response.grouped_df) = 1
  /\ response.grouped_df[1].Number_of_Games = 2

\* [lo1, hi1] is contained in [lo2, hi2]
RangeWithin(inner, outer) ==
  /\ ~inner[1].nan /\ ~inner[2].nan /\ ~outer[1].nan /\ ~outer[2].nan
  /\ outer[1].whole <= inner[1].whole
  /\ inner[2].whole <= outer[2].whole

Occurrences(rws, r) == Cardinality({i \in 1..Len(rws) : rws[i] = r})

\* C7: filtering is monotone: every row kept for a selection is kept, as
\* often, for every selection with more genres, more ratings and a wider
\* year range.
C7_Monotone ==
  Responding =>
    \A genres2 \in SUBSET Genres, ratings2 \in SUBSET Ratings,
       lo2 \in SelectableYears, hi2 \in SelectableYears :
      (/\ response.genres \subseteq genres2
       /\ response.ratings \subseteq ratings2
       /\ RangeWithin(response.year_range, <<lo2, hi2>>)) =>
        LET wider == filtered_df(df_cleaned, genres2, ratings2, <<lo2, hi2>>)
        IN  \A k \in 1..Len(response.filtered_df) :
              Occurrences(wider, response.filtered_df[k]) >=
                Occurrences(response.filtered_df, response.filtered_df[k])

C7_Witness ==
  /\ Responding
  /\ Len(response.filtered_df) = 1
  /\ response.genres # Genres /\ response.genres # {}
  /\ Len(filtered_df(df_cleaned, Genres, response.ratings, response.year_range)) = 2

\* C8: clean_data is idempotent: cleaning its own output again, with the
\* same threshold, returns the same rows with the same cells in the same order.
C8_Idempotent ==
  pc = "cleaned" =>
    /\ clean_data(df_cleaned, threshold).ok
    /\ clean_data(df_cleaned, threshold).frame = df_cleaned

C8_Witness ==
  /\ pc = "cleaned"
  /\ Len(df.rows) = 1
  /\ Len(df_cleaned.rows) = 1
  /\ df.columns = ExpectedColumns
  /\ df.rows[1]["User_Score"].kind = "float"
  /\ df.rows[1]["Year_of_Release"].tenths = 5
  /\ df_cleaned.rows # df.rows

\* the first row of the filtered subset with this year and platform
FirstSeen(g) ==
  CHOOSE i \in 1..Len(response.filtered_df) :
    /\ response.filtered_df[i]["Year_of_Release"] = g.Year_of_Release
    /\ response.filtered_df[i]["Platform"] = g.Platform
    /\ \A j \in 1..(i - 1) :
         ~(/\ response.filtered_df[j]["Year_of_Release"] = g.Year_of_Release
           /\ response.filtered_df[j]["Platform"] = g.Platform)

AreaResponse == Responding /\ response.callback = "update_game_release_area_plot"

\* C9 as stated: the rows of the grouped series are in ascending year, and
\* within a year in the order their platforms are first met in the filtered
\* subset.
C9_AsStated ==
  AreaResponse =>
    \A i, j \in 1..Len(response.grouped_df) :
      i < j =>
        LET a == response.grouped_df[i]
            b == response.grouped_df[j]
        IN  \/ a.Year_of_Release.whole < b.Year_of_Release.whole
            \/ /\ a.Year_of_Release.whole = b.Year_of_Release.whole
               /\ FirstSeen(a) < FirstSeen(b)

\* C9 amended: the rows of the grouped series are in ascending year, and
\* within a year in ascending order of the platform name; each (year,
\* platform) pair of the filtered subset has exactly one row.
C9_GroupedOrder ==
  AreaResponse =>
    /\ \A i, j \in 1..Len(response.grouped_df) :
         i < j =>
           LET a == response.grouped_df[i]
               b == response.grouped_df[j]
           IN  \/ a.Year_of_Release.whole < b.Year_of_Release.whole
               \/ /\ a.Year_of_Release.whole = b.Year_of_Release.whole
                  /\ \E m, n \in 1..Len(PlatformOrder) :
                       m < n /\ PlatformOrder[m] = a.Platform /\ PlatformOrder[n] = b.Platform
    /\ \A k \in 1..Len(response.filtered_df) :
         \E i \in 1..Len(response.grouped_df) :
           /\ response.grouped_df[i].Year_of_Release = response.filtered_df[k]["Year_of_Release"]
           /\ response.grouped_df[i].Platform = response.filtered_df[k]["Platform"]

C9_Witness ==
  /\ AreaResponse
  /\ Len(response.filtered_df) = 2
  /\ Len(response.grouped_df) = 2
  /\ response.filtered_df[1]["Year_of_Release"] = response.filtered_df[2]["Year_of_Release"]
  /\ response.filtered_df[1]["Platform"] = PlatformOrder[2]
  /\ response.grouped_df[1].Platform = PlatformOrder[1]

\* what a callback returns when it is the first one ever invoked
FirstResult(name, genres, ratings, year_range) ==
  LET table == clean_data(df, threshold).frame
      rws == filtered_df(table, genres, ratings, year_range)
  IN  CASE name = "update_game_count_text" ->
             Called(name, genres, ratings, year_range, rws, Len(rws), <<>>, <<>>)
        [] name = "update_game_release_area_plot" ->
             Called(name, genres, ratings, year_range, rws, 0, grouped_df(rws), <<>>)
        [] OTHER ->
             Called(name, genres, ratings, year_range, rws, 0, <<>>, scatter_points(rws))

\* a step taken once the dashboard serves leaves the module-level state alone
ServingStepKeepsGlobals ==
  pc \in {"serving", "responding"} =>
    (df_cleaned' = df_cleaned /\ df' = df /\ layout' = layout /\ threshold' = threshold)

\* C10: no callback changes df_cleaned or any other module-level state;
\* after any sequence of invocations df_cleaned is the table built at
\* startup, and what a callback returns depends only on its selection and
\* that table.
C10_CallbacksReadOnly ==
  /\ [][ServingStepKeepsGlobals]_vars
  /\ [](pc \in {"serving", "responding"} => df_cleaned = clean_data(df, threshold).frame)
  /\ [](Responding =>
          response = FirstResult(response.callback, response.genres, response.ratings,
                                 response.year_range))

C10_Witness ==
  /\ Responding
  /\ response.callback = "update_critic_user_scatter_plot"
  /\ Len(df_cleaned.rows) = 2
  /\ Len(response.scatter) = 1
  /\ df_cleaned = clean_data(df, threshold).frame
====
